---- MODULE Spec2Model ----
(***************************************************************************)
(* Source chain headers (core/src/chain/header.rs).                        *)
(*                                                                         *)
(* A u64 is a tuple of 8 bytes, least significant first, so that 64-bit     *)
(* wrapping arithmetic stays inside TLC's integers.  A String is the        *)
(* sequence of its UTF-8 bytes.  Option<u64> is <<>> for None and <<x>> for *)
(* Some(x).  Header::hash is std's DefaultHasher (SipHash-1-3, zero keys)   *)
(* fed with the six fields in the order of impl Hash for Header.            *)
(***************************************************************************)
EXTENDS Integers, Sequences, FiniteSets, TLC

\* ------------------------------------------------------------------ bounds
\* longest chain the model builds
MaxLen == 3

\* ------------------------------------------------------- 64-bit arithmetic
\* F applied to the value of e.  An operator's argument is evaluated at
\* each of its uses; binding it to a variable first evaluates it once.
With(e, F(_)) == CHOOSE r \in {F(x) : x \in {e}} : TRUE

Pow2(n) == 2 ^ n

RECURSIVE XorBits(_, _, _)
XorBits(a, b, n) ==
    IF n = 0 THEN 0
    ELSE ((a + b) % 2) + 2 * XorBits(a \div 2, b \div 2, n - 1)

\* exclusive or of two 4-bit values, tabulated
XorTable == [a \in 0..15 |-> [b \in 0..15 |-> XorBits(a, b, 4)]]

\* exclusive or of two bytes
Xor8(a, b) ==
    XorTable[a % 16][b % 16] + 16 * XorTable[a \div 16][b \div 16]

\* bitwise exclusive or of two u64
Xor64(x, y) ==
    <<Xor8(x[1], y[1]), Xor8(x[2], y[2]), Xor8(x[3], y[3]),
      Xor8(x[4], y[4]), Xor8(x[5], y[5]), Xor8(x[6], y[6]),
      Xor8(x[7], y[7]), Xor8(x[8], y[8])>>

\* the byte sums of x + y with the carry rippling upwards
AddFrom(x, y, i, carry) ==
    x[i] + y[i] + (carry \div 256)

\* u64::wrapping_add
Add64(x, y) ==
    With(x[1] + y[1], LAMBDA s1 :
    With(AddFrom(x, y, 2, s1), LAMBDA s2 :
    With(AddFrom(x, y, 3, s2), LAMBDA s3 :
    With(AddFrom(x, y, 4, s3), LAMBDA s4 :
    With(AddFrom(x, y, 5, s4), LAMBDA s5 :
    With(AddFrom(x, y, 6, s5), LAMBDA s6 :
    With(AddFrom(x, y, 7, s6), LAMBDA s7 :
        <<s1 % 256, s2 % 256, s3 % 256, s4 % 256, s5 % 256, s6 % 256,
          s7 % 256, AddFrom(x, y, 8, s7) % 256>>)))))))

\* byte i (1..8) of x rotated left by k whole bytes
RotByte(x, k, i) == x[((i - 1 - k) % 8) + 1]

\* byte i of x.rotate_left(b), 0 <= b < 64
RotlByte(x, b, i) ==
    IF b % 8 = 0 THEN RotByte(x, b \div 8, i)
    ELSE ((RotByte(x, b \div 8, i) % Pow2(8 - (b % 8))) * Pow2(b % 8))
         + (RotByte(x, (b \div 8) + 1, i) \div Pow2(8 - (b % 8)))

\* u64::rotate_left(b)
Rotl64(x, b) ==
    <<RotlByte(x, b, 1), RotlByte(x, b, 2), RotlByte(x, b, 3),
      RotlByte(x, b, 4), RotlByte(x, b, 5), RotlByte(x, b, 6),
      RotlByte(x, b, 7), RotlByte(x, b, 8)>>

\* ------------------------------------------------------------ SipHash-1-3
\* initial state of SipHasher13 with k0 = k1 = 0 (DefaultHasher::new())
SipInit ==
    << <<117, 101, 115, 112, 101, 109, 111, 115>>,
       <<109, 111, 100, 110, 97, 114, 111, 100>>,
       <<97, 114, 101, 110, 101, 103, 121, 108>>,
       <<115, 101, 116, 121, 98, 100, 101, 116>> >>

\* v0 += v1; v2 += v3; v1 = rotl(v1, 13) ^ v0; v3 = rotl(v3, 16) ^ v2;
\* v0 = rotl(v0, 32)
SipHalf1(v) ==
    With(<<Add64(v[1], v[2]), Add64(v[3], v[4])>>, LAMBDA s :
        <<Rotl64(s[1], 32), Xor64(Rotl64(v[2], 13), s[1]),
          s[2], Xor64(Rotl64(v[4], 16), s[2])>>)

\* v0 += v3; v2 += v1; v3 = rotl(v3, 21) ^ v0; v1 = rotl(v1, 17) ^ v2;
\* v2 = rotl(v2, 32)
SipHalf2(v) ==
    With(<<Add64(v[1], v[4]), Add64(v[3], v[2])>>, LAMBDA s :
        <<s[1], Xor64(Rotl64(v[2], 17), s[2]),
          Rotl64(s[2], 32), Xor64(Rotl64(v[4], 21), s[1])>>)

SipRound(v) == With(v, LAMBDA a : With(SipHalf1(a), LAMBDA b : SipHalf2(b)))

\* one message word: v3 ^= m; c_rounds; v0 ^= m
SipWord(v, m) ==
    With(<<v, m>>, LAMBDA a :
    With(SipRound(<<a[1][1], a[1][2], a[1][3], Xor64(a[1][4], a[2])>>),
         LAMBDA r : <<Xor64(r[1], a[2]), r[2], r[3], r[4]>>))

RECURSIVE SipBlocks(_, _, _)
SipBlocks(v, data, n) ==
    IF n = 0 THEN v
    ELSE SipWord(SipBlocks(v, data, n - 1), SubSeq(data, 8 * n - 7, 8 * n))

\* the last word: the bytes left over, zero padding, the length in the top
\* byte
SipLast(data) ==
    SubSeq(data, 8 * (Len(data) \div 8) + 1, Len(data))
    \o SubSeq(<<0, 0, 0, 0, 0, 0, 0>>, 1, 7 - (Len(data) % 8))
    \o <<Len(data) % 256>>

\* Hasher::finish of SipHasher13 over the bytes written so far
SipHash13(bytes) ==
    With(bytes, LAMBDA data :
    With(SipWord(SipBlocks(SipInit, data, Len(data) \div 8), SipLast(data)),
         LAMBDA v :
    With(SipRound(SipRound(SipRound(
             <<v[1], v[2], Xor64(v[3], <<255, 0, 0, 0, 0, 0, 0, 0>>),
               v[4]>>))),
         LAMBDA d : Xor64(Xor64(d[1], d[2]), Xor64(d[3], d[4])))))

\* ------------------------------------------------- what each field writes
\* impl Hash for str: the bytes, then 0xff
StrBytes(s) == s \o <<255>>

U64Bytes(x) == x

U64Of(n) == <<n, 0, 0, 0, 0, 0, 0, 0>>

\* derived Hash of Option<u64>: the discriminant, then the payload
OptBytes(o) ==
    IF o = <<>> THEN U64Bytes(U64Of(0))
    ELSE U64Bytes(U64Of(1)) \o U64Bytes(o[1])

None == <<>>
Some(x) == <<x>>

\* ------------------------------------------------------------------ Entry
foo == <<102, 111, 111>>
bar == <<98, 97, 114>>
emptyStr == <<>>
strA == <<97>>

\* Entry::new(entry_type, content)
EntryNew(t, c) == [entry_type |-> t, content |-> c]

\* the entries callers push: two of one type, one of another type
Entries ==
    {EntryNew(foo, emptyStr), EntryNew(foo, strA), EntryNew(bar, emptyStr)}

\* the entries callers build headers for: one they also push, and one of
\* empty strings
HeaderEntries == {EntryNew(foo, strA), EntryNew(emptyStr, emptyStr)}

\* the types callers ask top_type for
EntryTypes == {foo, bar}

\* Entry::hash: the value header.rs's hash_known test expects for
\* Header::new(empty chain, Entry::new("foo", "")) is reproduced only when
\* the entry's hash covers its content alone.
EntryHash(e) == SipHash13(StrBytes(e.content))

\* ----------------------------------------------------------------- Header
\* a Header hash that leaves the next link out
HeaderBytes_NoNext(header) ==
    With(header, LAMBDA h :
        StrBytes(h.entry_type) \o StrBytes(h.time)
        \o U64Bytes(h.entry) \o OptBytes(h.type_next)
        \o StrBytes(h.signature))

\* a Header hash that leaves the type_next link out
HeaderBytes_NoTypeNext(header) ==
    With(header, LAMBDA h :
        StrBytes(h.entry_type) \o StrBytes(h.time) \o OptBytes(h.next)
        \o U64Bytes(h.entry) \o StrBytes(h.signature))

\* a Header hash that leaves both links out
HeaderBytes_NoLinks(header) ==
    With(header, LAMBDA h :
        StrBytes(h.entry_type) \o StrBytes(h.time)
        \o U64Bytes(h.entry) \o StrBytes(h.signature))

\* impl Hash for Header: the six fields in declaration order
HeaderBytes(header) ==
    With(header, LAMBDA h :
        StrBytes(h.entry_type) \o StrBytes(h.time) \o OptBytes(h.next)
        \o U64Bytes(h.entry) \o OptBytes(h.type_next)
        \o StrBytes(h.signature))

\* Header::hash
HeaderHash(h) == SipHash13(HeaderBytes(h))

\* impl PartialEq for Header: equality of the hashes
HeaderEq(a, b) == HeaderHash(a) = HeaderHash(b)

\* expected value of tests::hash_known, 6289138340682858684
KnownHash == <<188, 0, 177, 227, 255, 129, 71, 87>>


\* ------------------------------------------------------------- SourceChain
\* MemChain::top: the last Pair of the sequence, or none
Top(chain) ==
    IF Len(chain) = 0 THEN None ELSE Some(chain[Len(chain)])

\* top_type scanning from the front: the first Pair of type t
RECURSIVE TopTypeFrom_Front(_, _, _)
TopTypeFrom_Front(chain, t, i) ==
    IF i = 0 THEN None
    ELSE IF chain[Len(chain) + 1 - i].header.entry_type = t
         THEN Some(chain[Len(chain) + 1 - i])
    ELSE TopTypeFrom_Front(chain, t, i - 1)

\* MemChain::top_type: scan from the end for the first Pair of type t
RECURSIVE TopTypeFrom(_, _, _)
TopTypeFrom(chain, t, i) ==
    IF i = 0 THEN None
    ELSE IF chain[i].header.entry_type = t THEN Some(chain[i])
    ELSE TopTypeFrom(chain, t, i - 1)

TopType(chain, t) == TopTypeFrom(chain, t, Len(chain))

\* opt.and_then(|p| Some(p.header().hash()))
AndThenHash(opt) ==
    IF opt = None THEN None ELSE Some(HeaderHash(opt[1].header))

\* Header::new with the two chain queries exchanged
HeaderNew_SwappedLinks(chain, entry) ==
    [entry_type |-> entry.entry_type,
     time       |-> emptyStr,
     next       |-> AndThenHash(TopType(chain, entry.entry_type)),
     entry      |-> EntryHash(entry),
     type_next  |-> AndThenHash(Top(chain)),
     signature  |-> emptyStr]

\* Header::new linking type_next to the entry of the top of type, not to
\* its header
HeaderNew_TypeNextEntry(chain, entry) ==
    [entry_type |-> entry.entry_type,
     time       |-> emptyStr,
     next       |-> AndThenHash(Top(chain)),
     entry      |-> EntryHash(entry),
     type_next  |-> IF TopType(chain, entry.entry_type) = None THEN None
                    ELSE Some(EntryHash(
                             TopType(chain, entry.entry_type)[1].entry)),
     signature  |-> emptyStr]

\* Header::new looking for the same type at the top of the chain only
HeaderNew_TypeNextTopOnly(chain, entry) ==
    [entry_type |-> entry.entry_type,
     time       |-> emptyStr,
     next       |-> AndThenHash(Top(chain)),
     entry      |-> EntryHash(entry),
     type_next  |-> IF Top(chain) # None
                       /\ Top(chain)[1].header.entry_type = entry.entry_type
                    THEN AndThenHash(Top(chain)) ELSE None,
     signature  |-> emptyStr]

\* Header::new taking type_next from chain.top() as well
HeaderNew_TypeNextIsNext(chain, entry) ==
    [entry_type |-> entry.entry_type,
     time       |-> emptyStr,
     next       |-> AndThenHash(Top(chain)),
     entry      |-> EntryHash(entry),
     type_next  |-> AndThenHash(Top(chain)),
     signature  |-> emptyStr]

\* Header::new defaulting the links of an empty chain to Some(0)
HeaderNew_ZeroLinks(chain, entry) ==
    [entry_type |-> entry.entry_type,
     time       |-> emptyStr,
     next       |-> IF Top(chain) = None THEN Some(U64Of(0))
                    ELSE AndThenHash(Top(chain)),
     entry      |-> EntryHash(entry),
     type_next  |-> IF TopType(chain, entry.entry_type) = None
                    THEN Some(U64Of(0))
                    ELSE AndThenHash(TopType(chain, entry.entry_type)),
     signature  |-> emptyStr]

\* Header::new binding the hash of the entry's type instead of the entry's
HeaderNew_EntryOfType(chain, entry) ==
    [entry_type |-> entry.entry_type,
     time       |-> emptyStr,
     next       |-> AndThenHash(Top(chain)),
     entry      |-> SipHash13(StrBytes(entry.entry_type)),
     type_next  |-> AndThenHash(TopType(chain, entry.entry_type)),
     signature  |-> emptyStr]

\* Header::new refusing to build the first header of a chain
HeaderNew_FailsOnEmpty(chain, entry) ==
    IF Len(chain) = 0 THEN None
    ELSE [entry_type |-> entry.entry_type,
          time       |-> emptyStr,
          next       |-> AndThenHash(Top(chain)),
          entry      |-> EntryHash(entry),
          type_next  |-> AndThenHash(TopType(chain, entry.entry_type)),
          signature  |-> emptyStr]

\* Header::new(chain, entry)
HeaderNew(chain, entry) ==
    [entry_type |-> entry.entry_type,
     time       |-> emptyStr,
     next       |-> AndThenHash(Top(chain)),
     entry      |-> EntryHash(entry),
     type_next  |-> AndThenHash(TopType(chain, entry.entry_type)),
     signature  |-> emptyStr]

\* Pair::new building its header against the chain without its top record
PairNew_StaleChain(chain, entry) ==
    [header |-> HeaderNew(SubSeq(chain, 1, Len(chain) - 1), entry),
     entry  |-> entry]

\* Pair::new(chain, entry)
PairNew(chain, entry) ==
    [header |-> HeaderNew(chain, entry), entry |-> entry]

\* ------------------------------------------------------------------ state
VARIABLES
    pairs,   \* the MemChain's record sequence
    op,      \* the operation called last
    arg,     \* its argument
    ret,     \* what it returned
    held,    \* the Header a caller built last with Header::new and keeps
    writers, \* per writer, the Pair it has built and not yet appended
    builtAt  \* per record, the chain length its header was built against

vars == <<pairs, op, arg, ret, held, writers, builtAt>>

\* the writers of a chain whose push is not protected by a lock
Writers == {1, 2}

\* MemChain::new()
Init ==
    /\ pairs = <<>>
    /\ op = "new"
    /\ arg = None
    /\ ret = None
    /\ held = None
    /\ writers = <<None, None>>
    /\ builtAt = <<>>

\* push replacing the top record instead of appending after it
Push_ReplacesTop(e) ==
    /\ Len(pairs) < MaxLen
    /\ pairs' = IF Len(pairs) < 2 THEN Append(pairs, PairNew(pairs, e))
                ELSE Append(SubSeq(pairs, 1, Len(pairs) - 1),
                            PairNew(pairs, e))
    /\ op' = "push"
    /\ arg' = e
    /\ ret' = pairs'[Len(pairs')]
    /\ held' = IF held = None THEN None
               ELSE Some([held[1] EXCEPT !.pushes = @ + 1])
    /\ builtAt' = Append(builtAt, Len(pairs))
    /\ UNCHANGED writers

\* push appending the header its caller built earlier for the same entry
Push_UsesHeld(e) ==
    /\ Len(pairs) < MaxLen
    /\ pairs' = Append(pairs,
                       IF held # None /\ held[1].e = e
                       THEN [header |-> held[1].h, entry |-> e]
                       ELSE PairNew(pairs, e))
    /\ op' = "push"
    /\ arg' = e
    /\ ret' = pairs'[Len(pairs')]
    /\ held' = IF held = None THEN None
               ELSE Some([held[1] EXCEPT !.pushes = @ + 1])
    /\ builtAt' = Append(builtAt, Len(pairs))
    /\ UNCHANGED writers

\* chain.push(e)
Push(e) ==
    /\ Len(pairs) < MaxLen
    /\ pairs' = Append(pairs, PairNew(pairs, e))
    /\ op' = "push"
    /\ arg' = e
    /\ ret' = pairs'[Len(pairs')]
    /\ held' = IF held = None THEN None
               ELSE Some([held[1] EXCEPT !.pushes = @ + 1])
    /\ builtAt' = Append(builtAt, Len(pairs))
    /\ UNCHANGED writers

\* chain.top()
CallTop ==
    /\ op' = "top"
    /\ arg' = None
    /\ ret' = Top(pairs)
    /\ UNCHANGED <<pairs, held, writers, builtAt>>

\* chain.top_type(t)
CallTopType(t) ==
    /\ op' = "top_type"
    /\ arg' = t
    /\ ret' = TopType(pairs, t)
    /\ UNCHANGED <<pairs, held, writers, builtAt>>

\* Header::new leaving the header it built on the chain
CallHeaderNew_Appends(e) ==
    /\ op' = "Header::new"
    /\ arg' = e
    /\ ret' = HeaderNew(pairs, e)
    /\ held' = Some([h |-> ret', e |-> e, pushes |-> 0])
    /\ pairs' = IF Len(pairs) < MaxLen
                THEN Append(pairs, [header |-> ret', entry |-> e])
                ELSE pairs
    /\ UNCHANGED <<writers, builtAt>>

\* Header::new(&chain, &e) called by a holder of the chain
CallHeaderNew(e) ==
    /\ op' = "Header::new"
    /\ arg' = e
    /\ ret' = HeaderNew(pairs, e)
    /\ held' = Some([h |-> ret', e |-> e, pushes |-> 0])
    /\ UNCHANGED <<pairs, writers, builtAt>>

Next ==
    \/ \E e \in Entries : Push(e)
    \/ CallTop
    \/ \E t \in EntryTypes : CallTopType(t)
    \/ \E e \in HeaderEntries : CallHeaderNew(e)

Spec == Init /\ [][Next]_vars

\* ------------------------------------------------- push without a lock
\* the number of writers holding a Pair they have not appended yet
Pending == Cardinality({w \in Writers : writers[w] # None})

\* first half of a push: the writer reads top and top_type through
\* Header::new and keeps the Pair it built
WriterBuild(w, e) ==
    /\ writers[w] = None
    /\ Len(pairs) + Pending < MaxLen
    /\ writers' = [writers EXCEPT
                      ![w] = Some([pair |-> PairNew(pairs, e),
                                   at   |-> Len(pairs)])]
    /\ UNCHANGED <<pairs, op, arg, ret, held, builtAt>>

\* second half of a push: the writer appends the Pair it built
WriterAppend(w) ==
    /\ writers[w] # None
    /\ pairs' = Append(pairs, writers[w][1].pair)
    /\ builtAt' = Append(builtAt, writers[w][1].at)
    /\ writers' = [writers EXCEPT ![w] = None]
    /\ UNCHANGED <<op, arg, ret, held>>

RaceNext ==
    \/ \E w \in Writers, e \in Entries : WriterBuild(w, e)
    \/ \E w \in Writers : WriterAppend(w)

SpecRace == Init /\ [][RaceNext]_vars

\* ------------------------------------------------- Header values compared
\* a second u64 value next to KnownHash: the hash of an entry with content "a"
OtherHash == EntryHash(EntryNew(foo, strA))

\* Header values over two choices for each of the six fields
HeaderValues ==
    [entry_type : {foo, bar},
     time       : {emptyStr, strA},
     next       : {None, Some(KnownHash)},
     entry      : {KnownHash, OtherHash},
     type_next  : {None, Some(KnownHash)},
     signature  : {emptyStr, strA}]

\* two Header values in hand
HashInit ==
    /\ pairs = <<>>
    /\ op = "values"
    /\ arg \in HeaderValues \X HeaderValues
    /\ ret = None
    /\ held = None
    /\ writers = <<None, None>>
    /\ builtAt = <<>>

\* a.hash() and b.hash()
CallHash ==
    /\ op' = "hash"
    /\ ret' = <<HeaderHash(arg[1]), HeaderHash(arg[2])>>
    /\ UNCHANGED <<pairs, arg, held, writers, builtAt>>

\* a == b
CallEq ==
    /\ op' = "eq"
    /\ ret' = HeaderEq(arg[1], arg[2])
    /\ UNCHANGED <<pairs, arg, held, writers, builtAt>>

HashNext == CallHash \/ CallEq

SpecHash == HashInit /\ [][HashNext]_vars

\* tests::hash_known: the header of Entry::new("foo", "") on an empty chain
HashKnown ==
    HeaderHash(HeaderNew(<<>>, EntryNew(foo, emptyStr))) = KnownHash

\* ------------------------------------------------------------- properties
Hdr(i) == pairs[i].header

TypeOf(i) == pairs[i].entry.entry_type

Max(S) == CHOOSE x \in S : \A y \in S : y <= x

\* indices before i of the records whose entry has type t
EarlierOfType(t, i) == {j \in 1..(i - 1) : TypeOf(j) = t}

\* the hash of the header of the last record before i of type t, if any
LastOfTypeHash(t, i) ==
    IF EarlierOfType(t, i) = {} THEN None
    ELSE Some(HeaderHash(Hdr(Max(EarlierOfType(t, i)))))

\* C1: the genesis header has no next link and every later header's next
\* is the hash of the header appended immediately before it.
C1_NextLinks ==
    \A i \in 1..Len(pairs) :
        Hdr(i).next = IF i = 1 THEN None ELSE Some(HeaderHash(Hdr(i - 1)))

C1_Witness ==
    /\ Len(pairs) >= 3
    /\ Hdr(1).next = None
    /\ Hdr(3).next = Some(HeaderHash(Hdr(2)))
    /\ Hdr(3).next # Hdr(2).next

\* C2: every header's type_next is the hash of the header of the latest
\* earlier record of the same entry type, and None when there is none,
\* whatever other types were pushed in between.
C2_TypeNextLinks ==
    \A i \in 1..Len(pairs) :
        Hdr(i).type_next = LastOfTypeHash(TypeOf(i), i)

\* push foo, bar, foo
C2_Witness ==
    /\ Len(pairs) >= 3
    /\ TypeOf(1) = foo /\ TypeOf(2) = bar /\ TypeOf(3) = foo
    /\ Hdr(3).type_next = Some(HeaderHash(Hdr(1)))
    /\ Hdr(2).type_next = None

\* C3 as stated: after push(e1) then push(e2) on any chain, the second
\* header's type_next is the first header's hash when the types are equal
\* and None when they differ.
C3_Original ==
    [][(op' = "push" /\ Len(pairs) >= 1) =>
         IF pairs[Len(pairs)].entry.entry_type = arg'.entry_type
         THEN ret'.header.type_next
                  = Some(HeaderHash(pairs[Len(pairs)].header))
         ELSE ret'.header.type_next = None]_vars

\* C3 amended: after push(e1) then push(e2) on any chain, the second
\* header's type_next is the first header's hash when the types are equal;
\* when they differ it is None only if no record before e1 has e2's type,
\* and otherwise the hash of the header of the latest such record.
C3_ConsecutivePushes ==
    [][(op' = "push" /\ Len(pairs) >= 1) =>
         IF pairs[Len(pairs)].entry.entry_type = arg'.entry_type
         THEN ret'.header.type_next
                  = Some(HeaderHash(pairs[Len(pairs)].header))
         ELSE ret'.header.type_next
                  = LastOfTypeHash(arg'.entry_type, Len(pairs))]_vars

\* the second of two pushes of different types links to an older record
C3_Witness ==
    /\ op = "push"
    /\ Len(pairs) >= 3
    /\ TypeOf(Len(pairs)) # TypeOf(Len(pairs) - 1)
    /\ ret = pairs[Len(pairs)]
    /\ ret.header.type_next # None

\* C4: a header has no next link exactly when it is the genesis record and
\* no type_next link exactly when it is the first record of its type.
C4_NoneOnlyForFirst ==
    \A i \in 1..Len(pairs) :
        /\ (Hdr(i).next = None) <=> (i = 1)
        /\ (Hdr(i).type_next = None) <=> (EarlierOfType(TypeOf(i), i) = {})

\* a later record that is the first of its type, and one that is not
C4_Witness ==
    /\ Len(pairs) >= 3
    /\ \E i \in 2..Len(pairs) :
           Hdr(i).type_next = None /\ Hdr(i).next # None
    /\ \E i \in 2..Len(pairs) : Hdr(i).type_next # None

\* C5: a header built for any entry against an empty chain has neither a
\* next nor a type_next link.
C5_EmptyChainLinks ==
    (op = "Header::new" /\ pairs = <<>>) =>
        (ret.next = None /\ ret.type_next = None)

\* built for the entry with empty type and content
C5_Witness ==
    /\ op = "Header::new"
    /\ pairs = <<>>
    /\ arg = EntryNew(emptyStr, emptyStr)
    /\ ret.next = None

\* C6: every Pair on the chain, and every header built by Header::new,
\* carries the hash and the type of the entry it was built from.
C6_HeaderBindsEntry ==
    /\ \A i \in 1..Len(pairs) :
           /\ Hdr(i).entry = EntryHash(pairs[i].entry)
           /\ Hdr(i).entry_type = pairs[i].entry.entry_type
    /\ held # None =>
           /\ held[1].h.entry = EntryHash(held[1].e)
           /\ held[1].h.entry_type = held[1].e.entry_type

C6_Witness ==
    /\ Len(pairs) >= 2
    /\ held # None
    /\ held[1].pushes >= 1
    /\ pairs[2].entry.content = strA
    /\ Hdr(2).entry = EntryHash(pairs[2].entry)

\* C7: top() returns the last record and top_type(T) the last record of
\* type T (none when there is none); right after push(e) returns p both
\* top() and top_type(e's type) are p and top_type of every other type is
\* what it was before the push.
C7_TopViews ==
    [][/\ op' = "top" =>
            ret' = IF Len(pairs') = 0 THEN None
                   ELSE Some(pairs'[Len(pairs')])
       /\ op' = "top_type" =>
            ret' = IF \A i \in 1..Len(pairs') :
                          pairs'[i].entry.entry_type # arg'
                   THEN None
                   ELSE Some(pairs'[Max({i \in 1..Len(pairs') :
                                  pairs'[i].entry.entry_type = arg'})])
       /\ op' = "push" =>
            /\ Top(pairs') = Some(ret')
            /\ TopType(pairs', arg'.entry_type) = Some(ret')
            /\ \A t \in EntryTypes \ {arg'.entry_type} :
                   TopType(pairs', t) = TopType(pairs, t)]_vars

\* top_type answered with a record that is not the top of the chain
C7_Witness ==
    /\ op = "top_type"
    /\ Len(pairs) >= 3
    /\ ret # None
    /\ ret # Some(pairs[Len(pairs)])
    /\ ret[1].entry.entry_type = arg

\* C8: a push makes the sequence one longer, every step leaves the records
\* already on the chain at their index unchanged, and nothing shortens it.
C8_AppendOnly ==
    [][/\ op' = "push" => Len(pairs') = Len(pairs) + 1
       /\ Len(pairs') >= Len(pairs)
       /\ SubSeq(pairs', 1, Len(pairs)) = pairs]_vars

C8_Witness ==
    /\ op = "push"
    /\ Len(pairs) >= 3
    /\ ret = pairs[Len(pairs)]

\* C9: top(), top_type(T) and Header::new leave the record sequence as it
\* was.
C9_ReadsArePure ==
    [][op' \in {"top", "top_type", "Header::new"} => pairs' = pairs]_vars

\* a header was built on a non-empty chain and a push followed it
C9_Witness ==
    /\ op = "push"
    /\ Len(pairs) >= 2
    /\ held # None
    /\ held[1].pushes = 1
    /\ held[1].h.next # None

\* C10: the header Header::new built for e equals, field by field and in
\* its hash, the header of the Pair that push(e) returns when no other
\* push happened in between.
C10_PushBuildsSameHeader ==
    [][(op' = "push" /\ held # None /\ held[1].pushes = 0
            /\ held[1].e = arg') =>
         /\ ret'.header = held[1].h
         /\ HeaderHash(ret'.header) = HeaderHash(held[1].h)]_vars

\* the entry a header was built for on a non-empty chain has been pushed
C10_Witness ==
    /\ op = "push"
    /\ Len(pairs) >= 2
    /\ held # None
    /\ held[1].pushes = 1
    /\ held[1].e = arg
    /\ held[1].h = ret.header

\* C11: when Header::new is called for the entry of the header its caller
\* holds from an earlier state of the chain, one or more pushes ago, the
\* header it returns and the held one have different hashes although both
\* carry the same entry() value.
C11_ChainStateInHash ==
    [][(/\ op' = "Header::new"
        /\ held # None
        /\ held[1].pushes >= 1
        /\ held[1].e = arg') =>
           /\ HeaderHash(ret') # HeaderHash(held[1].h)
           /\ ret'.entry = held[1].h.entry]_vars

C11_Witness ==
    /\ held # None
    /\ held[1].pushes = 1
    /\ held[1].e.entry_type = foo
    /\ TypeOf(Len(pairs)) = bar
    /\ HeaderNew(pairs, held[1].e).type_next = held[1].h.type_next
    /\ HeaderNew(pairs, held[1].e).entry = held[1].h.entry
    /\ HeaderHash(HeaderNew(pairs, held[1].e)) # HeaderHash(held[1].h)

\* the records appended since the held header was built
PushedSince == {i \in 1..Len(pairs) : i > Len(pairs) - held[1].pushes}

\* C12 as stated: once one or more pushes have followed Header::new, the
\* held header's next differs from the hash of the current top header and
\* its type_next differs from the hash of the header of the current
\* top_type of its entry's type.
C12_Original ==
    (held # None /\ held[1].pushes >= 1) =>
        /\ held[1].h.next # AndThenHash(Top(pairs))
        /\ held[1].h.type_next
               # AndThenHash(TopType(pairs, held[1].e.entry_type))

\* C12: once one or more pushes have followed Header::new, the held
\* header's next differs from the hash of the current top header, and its
\* type_next differs from the hash of the header of the current top_type of
\* its entry's type exactly when one of those pushes was of that type.
C12_StaleLinks ==
    (held # None /\ held[1].pushes >= 1) =>
        /\ held[1].h.next # AndThenHash(Top(pairs))
        /\ (held[1].h.type_next
                # AndThenHash(TopType(pairs, held[1].e.entry_type)))
           <=> (\E i \in PushedSince : TypeOf(i) = held[1].e.entry_type)

C12_Witness ==
    /\ held # None
    /\ held[1].pushes = 2
    /\ held[1].e.entry_type = foo
    /\ TypeOf(Len(pairs)) = bar
    /\ TypeOf(Len(pairs) - 1) = bar
    /\ held[1].h.next # AndThenHash(Top(pairs))
    /\ held[1].h.type_next = AndThenHash(TopType(pairs, foo))

\* C13: with two writers whose pushes are not atomic, two records whose
\* headers were built against the same top carry the same next; when both
\* writers read before either appended, the record appended second has a
\* next that is not the hash of the header immediately before it. As long
\* as every record was built and appended with no append in between, every
\* next is the hash of the header immediately before it.
C13_RaceBreaksLink ==
    /\ \A i, j \in 1..Len(pairs) :
           builtAt[i] = builtAt[j] => Hdr(i).next = Hdr(j).next
    /\ \A i \in 2..Len(pairs) :
           builtAt[i] = builtAt[i - 1] =>
               Hdr(i).next # Some(HeaderHash(Hdr(i - 1)))
    /\ \A i \in 1..Len(pairs) :
           (\A j \in 1..i : builtAt[j] = j - 1) =>
               Hdr(i).next = IF i = 1 THEN None
                             ELSE Some(HeaderHash(Hdr(i - 1)))

C13_Witness ==
    /\ Len(pairs) >= 3
    /\ builtAt[2] = 1
    /\ builtAt[3] = 1
    /\ Hdr(2).next = Some(HeaderHash(Hdr(1)))
    /\ Hdr(3).next = Hdr(2).next
    /\ Hdr(3).next # Some(HeaderHash(Hdr(2)))

\* the fields in which the two Header values in hand differ
DifferIn ==
    {f \in {"entry_type", "time", "next", "entry", "type_next", "signature"} :
        arg[1][f] # arg[2][f]}

\* C14: two Header values have equal hash(), and compare equal with ==,
\* exactly when all six fields are equal; headers that differ only in next
\* or only in type_next are not equal.
C14_EqIffFieldsEqual ==
    /\ op = "hash" => ((ret[1] = ret[2]) <=> DifferIn = {})
    /\ op = "eq" => (ret <=> DifferIn = {})
    /\ (op = "eq" /\ DifferIn \in {{"next"}, {"type_next"}}) => ~ret

C14_Witness ==
    /\ op = "eq"
    /\ DifferIn = {"type_next"}
    /\ arg[1].next = None
    /\ ~ret

\* the entries that are pushed or given to Header::new
AllEntries == Entries \cup HeaderEntries

\* C15 as stated: against one chain state, the header built for an entry
\* and the header just built for another have equal hashes exactly when the
\* two entries have the same entry_type and content, and the two entries'
\* own hashes are equal exactly when entry_type and content are the same.
C15_Original ==
    op = "Header::new" =>
        \A e \in AllEntries :
            /\ (HeaderHash(HeaderNew(pairs, e)) = HeaderHash(ret))
               <=> (e = arg)
            /\ (EntryHash(e) = EntryHash(arg)) <=> (e = arg)

HeaderFields ==
    {"entry_type", "time", "next", "entry", "type_next", "signature"}

\* a value with the six fields of a Header
IsHeader(h) == DOMAIN h = HeaderFields

\* a Pair of a Header and an Entry
IsPair(p) == DOMAIN p = {"header", "entry"} /\ IsHeader(p.header)

\* the chain as MemChain::new or a push has just left it, before any read
FreshChain == op \in {"new", "push"} /\ held = None

\* C16: in every reachable state, the empty chain included, the operation
\* called last has returned a value of its result type (push a Pair,
\* Header::new a Header, top and top_type a Pair or none), and on every
\* chain state, taken as a push has just left it, every operation can be
\* called with every entry, those with empty type or content included; push
\* is never disabled below the length bound.
C16_Total ==
    /\ op = "push" => IsPair(ret)
    /\ op = "Header::new" => IsHeader(ret)
    /\ op \in {"top", "top_type"} =>
           \/ ret = None
           \/ Len(ret) = 1 /\ IsPair(ret[1])
    /\ \A i \in 1..Len(pairs) : IsPair(pairs[i])
    /\ FreshChain =>
           /\ Len(pairs) < MaxLen => \A e \in AllEntries : ENABLED Push(e)
           /\ \A e \in AllEntries : ENABLED CallHeaderNew(e)
           /\ ENABLED CallTop
           /\ \A t \in EntryTypes \cup {emptyStr} : ENABLED CallTopType(t)

C16_Witness ==
    /\ pairs = <<>>
    /\ op = "Header::new"
    /\ arg = EntryNew(emptyStr, emptyStr)
    /\ IsHeader(ret)
    /\ ret.next = None

\* the hashes of the headers of all records
RecordHashes == {HeaderHash(Hdr(i)) : i \in 1..Len(pairs)}

\* C17: the headers of the records of a chain built by serialized pushes
\* have pairwise distinct hashes, also when the same entry is pushed
\* repeatedly.
C17_DistinctHashes == Cardinality(RecordHashes) = Len(pairs)

C17_Witness ==
    /\ Len(pairs) >= 3
    /\ pairs[1].entry = pairs[2].entry
    /\ pairs[2].entry = pairs[3].entry
    /\ Cardinality(RecordHashes) = Len(pairs)

\* the hashes of the headers of the first n records, in chain order
RECURSIVE HashesUpTo(_)
HashesUpTo(n) ==
    IF n = 0 THEN <<>>
    ELSE Append(HashesUpTo(n - 1), HeaderHash(Hdr(n)))

\* the indices of the records met by following link field f from record i
\* through the header hashes hs, for at most fuel links; an index 0 marks a
\* link that no record, or more than one record, answers to
RECURSIVE WalkFrom(_, _, _, _)
WalkFrom(hs, i, f, fuel) ==
    IF Hdr(i)[f] = None \/ fuel = 0 THEN <<i>>
    ELSE With({j \in 1..Len(hs) : hs[j] = Hdr(i)[f][1]}, LAMBDA T :
            IF Cardinality(T) # 1 THEN <<i, 0>>
            ELSE <<i>> \o WalkFrom(hs, CHOOSE j \in T : TRUE, f, fuel - 1))

\* the walk that starts at the Pair a query returned, if it returned one
Walk(hs, start, f) ==
    IF start = None THEN <<>>
    ELSE WalkFrom(hs, Max({i \in 1..Len(pairs) : pairs[i] = start[1]}),
                  f, Len(pairs))

\* n, n - 1, ..., 1
RECURSIVE Down(_)
Down(n) == IF n = 0 THEN <<>> ELSE <<n>> \o Down(n - 1)

\* the indices up to n of the records of type t, latest first
RECURSIVE DownOfType(_, _)
DownOfType(t, n) ==
    IF n = 0 THEN <<>>
    ELSE (IF TypeOf(n) = t THEN <<n>> ELSE <<>>) \o DownOfType(t, n - 1)

\* C18: in the chain every push leaves, following next from top() visits
\* every record exactly once, latest first, and ends at the first record,
\* with no cycle and no dangling link; following type_next from top_type(T)
\* visits exactly the records of type T, latest first.
WalksCoverChain ==
    With(HashesUpTo(Len(pairs)), LAMBDA hs :
        /\ Walk(hs, Top(pairs), "next") = Down(Len(pairs))
        /\ \A t \in EntryTypes :
               Walk(hs, TopType(pairs, t), "type_next")
                   = DownOfType(t, Len(pairs)))

C18_WalksCoverChain == op = "push" => WalksCoverChain

C18_Witness ==
    /\ op = "push"
    /\ Len(pairs) = 3
    /\ TypeOf(1) = foo
    /\ TypeOf(2) = bar
    /\ TypeOf(3) = foo
    /\ Walk(HashesUpTo(3), Top(pairs), "next") = <<3, 2, 1>>
    /\ Walk(HashesUpTo(3), TopType(pairs, foo), "type_next") = <<3, 1>>
    /\ Walk(HashesUpTo(3), TopType(pairs, bar), "type_next") = <<2>>

\* C19: in every record, a type_next link implies a next link; the record
\* whose header a type_next link names is an earlier record of the same
\* entry_type; and a record of the same type as the record immediately
\* before it has type_next equal to next.
C19_TypeLinkShape ==
    With(HashesUpTo(Len(pairs)), LAMBDA hs :
        \A i \in 1..Len(pairs) :
            /\ Hdr(i).type_next # None =>
                   /\ Hdr(i).next # None
                   /\ \E j \in 1..Len(pairs) : hs[j] = Hdr(i).type_next[1]
                   /\ \A j \in 1..Len(pairs) :
                          hs[j] = Hdr(i).type_next[1] =>
                              /\ j < i
                              /\ Hdr(j).entry_type = Hdr(i).entry_type
            /\ (i > 1 /\ Hdr(i - 1).entry_type = Hdr(i).entry_type) =>
                   Hdr(i).type_next = Hdr(i).next)

C19_Witness ==
    /\ Len(pairs) = 3
    /\ Hdr(1).entry_type = bar
    /\ Hdr(2).entry_type = foo
    /\ Hdr(3).entry_type = foo
    /\ Hdr(2).type_next = None
    /\ Hdr(2).next # None
    /\ Hdr(3).type_next = Hdr(3).next
    /\ Hdr(3).type_next = Some(HeaderHash(Hdr(2)))

\* a second chain instance that starts empty and is pushed the entries of
\* the first n records, with no other call in between
RECURSIVE Replay(_)
Replay(n) ==
    IF n = 0 THEN <<>>
    ELSE With(Replay(n - 1), LAMBDA c :
            Append(c, PairNew(c, pairs[n].entry)))

SameAsReplay ==
    /\ pairs = Replay(Len(pairs))
    /\ pairs[1].entry = EntryNew(foo, emptyStr) =>
           HeaderHash(Hdr(1)) = KnownHash

\* C20: the record sequence every push leaves, whatever top, top_type and
\* Header::new calls were made between the pushes, equals the record
\* sequence of a second instance pushed the same entries with no call in
\* between, field by field at each index, and the first header of a chain
\* started with Entry::new("foo", "") has the hash tests::hash_known pins.
C20_Deterministic == op = "push" => SameAsReplay

C20_Witness ==
    /\ Len(pairs) = 3
    /\ held # None
    /\ held[1].pushes = 2
    /\ held[1].e = pairs[3].entry
    /\ op = "push"
    /\ pairs = Replay(3)
    /\ Hdr(3) # held[1].h

====
